---- MODULE Spec2Model ----
(***************************************************************************)
(* The period state machine of the price estimation ABCI skill             *)
(* (packages/valory/skills/price_estimation_abci/rounds.py).               *)
(*                                                                         *)
(* One round object is current at a time.  A payload handler of the        *)
(* current round admits or drops a payload; end_block of the current round *)
(* either returns None or a new period state and the next round object.    *)
(***************************************************************************)
EXTENDS Integers, Sequences, FiniteSets, TLC

\* ---------------------------------------------------------------- bounds
\* Largest committee size; one more address exists than the largest
\* committee has members, so that there is always an outsider.
MaxParticipants == 2
\* Number of distinct contents a payload of one kind can carry.
NumValues == 2

\* Longest string of hexadecimal digits given to int().
MaxHexLen == 2
\* Floats are (-1)^sign * mant * 2^exp with mant odd up to MaxMantissa and
\* exp between -MaxExponent and MaxExponent, and the two zeros.
MaxMantissa == 7
MaxExponent == 2

Addresses == 1..(MaxParticipants + 1)
Values == 1..NumValues
\* Observations are prices in units of one half, so that the average of two
\* of them is again a number of halves.
Observations == {2 * v : v \in Values}

\* Optional[T]: None is the empty tuple, a present value x is <<x>>.
None == <<>>
Some(x) == <<x>>

RoundIds ==
    { "registration", "randomness", "select_keeper_a", "deploy_safe",
      "validate_safe", "collect_observation", "estimate_consensus", "tx_hash",
      "collect_signature", "finalization", "validate_transaction",
      "select_keeper_b", "consensus_reached" }

VARIABLES
    max_participants,     \* ConsensusParams.max_participants
    consensus_threshold,  \* ConsensusParams.consensus_threshold
    open,                 \* the round in which deliveries are unconstrained
    round_id,             \* round_id of the current round object
    participants,         \* RegistrationRound.participants
    round_dict,           \* the per-sender dict of the current round object
    round_value,          \* DeploySafeRound._contract_address / FinalizationRound._tx_hash
    period_state,         \* the period state (self._state of the current round)
    last                  \* the last call made on the round and how it ended

params == <<max_participants, consensus_threshold>>
\* the state of the program: the round object and the period state
progvars == <<round_id, participants, round_dict, round_value, period_state>>
vars == <<max_participants, consensus_threshold, open, round_id, participants,
          round_dict, round_value, period_state, last>>

\* ------------------------------------------------------- Python helpers
Min(S) == CHOOSE x \in S : \A y \in S : x <= y
Range(f) == {f[i] : i \in DOMAIN f}

\* A dict is the sequence of its (key, item) pairs in insertion order.
Keys(d) == {d[i][1] : i \in DOMAIN d}
\* d[k] = x : a new key goes last, an existing key keeps its position.
Put(d, k, x) ==
    IF k \in Keys(d)
    THEN [i \in DOMAIN d |-> IF d[i][1] = k THEN <<k, x>> ELSE d[i]]
    ELSE Append(d, <<k, x>>)

\* collections.Counter over a sequence of values: its keys in first-seen
\* order and the count of each.
CounterKeys(vals) ==
    LET F[i \in 0..Len(vals)] ==
            IF i = 0 THEN <<>>
            ELSE IF \E j \in 1..(i - 1) : vals[j] = vals[i]
                 THEN F[i - 1]
                 ELSE Append(F[i - 1], vals[i])
    IN F[Len(vals)]
CounterCount(vals, v) == Cardinality({i \in DOMAIN vals : vals[i] = v})

\* any(count >= n for count in counter.values())
AnyCountReaches(vals, n) ==
    \E v \in Range(vals) : CounterCount(vals, v) >= n

ValueError == -1
\* max(counter.items(), key=itemgetter(1)): the first item, in the counter's
\* iteration order, whose count is maximal; ValueError on an empty counter
\* and when the maximal count is below n.
\* max() keeping the last of the items with the maximal count
MostVotedLast(vals, n) ==
    LET keys == CounterKeys(vals)
        best == CHOOSE i \in DOMAIN keys :
                    /\ \A j \in DOMAIN keys :
                           CounterCount(vals, keys[j]) <= CounterCount(vals, keys[i])
                    /\ \A j \in (i + 1)..Len(keys) :
                           CounterCount(vals, keys[j]) < CounterCount(vals, keys[i])
    IN IF keys = <<>> THEN ValueError
       ELSE IF CounterCount(vals, keys[best]) < n THEN ValueError
       ELSE keys[best]

\* max() over the counter without the test of the maximal count
MostVoted_unchecked(vals, n) ==
    LET keys == CounterKeys(vals)
        best == CHOOSE i \in DOMAIN keys :
                    /\ \A j \in DOMAIN keys :
                           CounterCount(vals, keys[j]) <= CounterCount(vals, keys[i])
                    /\ \A j \in 1..(i - 1) :
                           CounterCount(vals, keys[j]) < CounterCount(vals, keys[i])
    IN IF keys = <<>> THEN ValueError
       ELSE keys[best]

MostVoted(vals, n) ==
    LET keys == CounterKeys(vals)
        best == CHOOSE i \in DOMAIN keys :
                    /\ \A j \in DOMAIN keys :
                           CounterCount(vals, keys[j]) <= CounterCount(vals, keys[i])
                    /\ \A j \in 1..(i - 1) :
                           CounterCount(vals, keys[j]) < CounterCount(vals, keys[i])
    IN IF keys = <<>> THEN ValueError
       ELSE IF CounterCount(vals, keys[best]) < n THEN ValueError
       ELSE keys[best]

\* The number of payloads of a dict that carry v in attribute attr.
VotesFor(d, attr, v) == Cardinality({i \in DOMAIN d : d[i][2][attr] = v})
VotedValues(d, attr) == {d[i][2][attr] : i \in DOMAIN d}

\* --------------------------------------------------------- period state
EmptyPeriodState ==
    [ participants |-> None,
      participant_to_randomness |-> None,
      most_voted_randomness |-> None,
      participant_to_selection |-> None,
      most_voted_keeper_address |-> None,
      safe_contract_address |-> None,
      participant_to_votes |-> None,
      participant_to_observations |-> None,
      participant_to_estimate |-> None,
      estimate |-> None,
      most_voted_estimate |-> None,
      participant_to_tx_hash |-> None,
      most_voted_tx_hash |-> None,
      participant_to_signature |-> None,
      final_tx_hash |-> None ]
Fields == DOMAIN EmptyPeriodState

\* PeriodState(participants=p)
PeriodState(p) == [EmptyPeriodState EXCEPT !.participants = Some(p)]

\* A property of the period state: the field's value; reading a field that
\* is None is an error (enforce), here the evaluation of <<>>[1].
Get(state, f) == state[f][1]

\* state.update(**patch): a new state with the patched fields set and the
\* other fields as they were.
update(state, patch) ==
    [f \in Fields |-> IF f \in DOMAIN patch THEN Some(patch[f]) ELSE state[f]]

\* ---------------------------------------------------------- environment
\* Payloads reach a round object in a total order.  In the round named by
\* `open` any address may deliver any content at any time.  In the other
\* rounds the participants deliver the same content in address order until
\* consensus_threshold of them have delivered: they vote for the participant
\* after the current keeper, they validate with True, and a keeper that acts
\* again delivers a content other than the one recorded before.  SelectKeeperB
\* is entered after a failed validation of the transaction only: when it is
\* the open round, the first transaction is validated with False.  When no
\* round is open (open names ConsensusReached, which takes no payload), every
\* participant delivers, also after the threshold is met.
InTurn(sender) ==
    /\ period_state.participants # None
    /\ Len(round_dict) < consensus_threshold \/ open = "consensus_reached"
    /\ Get(period_state, "participants") \ Keys(round_dict) # {}
    /\ sender = Min(Get(period_state, "participants") \ Keys(round_dict))
Deliverable(rid, sender, content, nominal) ==
    /\ round_id = rid
    /\ open = rid \/ (InTurn(sender) /\ content = nominal)
NextKeeper ==
    LET ps == Get(period_state, "participants")
        later == IF period_state.most_voted_keeper_address = None THEN ps
                 ELSE {p \in ps : p > Get(period_state, "most_voted_keeper_address")}
    IN IF later = {} THEN Min(ps) ELSE Min(later)
Fresh(field) ==
    IF period_state[field] = None THEN 1
    ELSE (Get(period_state, field) % NumValues) + 1
\* The first transaction is the one whose hash is the first content, 1.
NominalVote(rid) ==
    ~ ( /\ rid = "validate_transaction"
        /\ open = "select_keeper_b"
        /\ period_state.final_tx_hash = Some(1) )

\* --------------------------------------------------------- construction
\* A new round object: AbstractRound.__init__(state, consensus_params) and
\* the subclass __init__, which starts the round's collection empty.
NewRound(rid, state) ==
    /\ round_id' = rid
    /\ period_state' = state
    /\ participants' = {}
    /\ round_dict' = <<>>
    /\ round_value' = None

Returned(op, ret) == last' = [op |-> op, ret |-> ret]

\* end_block returned None: the driver keeps the round object.
ReturnNone ==
    /\ Returned("end_block", "None")
    /\ UNCHANGED <<params, open, progvars>>

Init ==
    /\ max_participants \in 1..MaxParticipants
    /\ consensus_threshold \in 1..(MaxParticipants + 1)
    /\ open \in RoundIds \ {"consensus_reached"}
    /\ round_id = "registration"
    /\ participants = {}
    /\ round_dict = <<>>
    /\ round_value = None
    /\ period_state = EmptyPeriodState
    /\ last = [op |-> "init", ret |-> "None"]

\* ---------------------------------------------------- RegistrationRound
\* registration keeping the last sender only
registration_apply_replace(set, payload) == {payload.sender}

registration_apply(set, payload) == set \cup {payload.sender}

registration(sender) ==
    /\ round_id = "registration"
    /\ \/ open = "registration"
       \/ /\ Cardinality(participants) < max_participants
          /\ sender = Min(Addresses \ participants)
    /\ participants' = registration_apply(participants, [sender |-> sender])
    /\ Returned("registration",
                IF sender \in participants THEN "duplicate" ELSE "added")
    /\ UNCHANGED <<params, open, round_id, round_dict, round_value, period_state>>

\* the registration threshold met by max_participants or more addresses
registration_threshold_reached_at_least ==
    Cardinality(participants) >= max_participants

registration_threshold_reached ==
    Cardinality(participants) = max_participants

RegistrationEndBlock ==
    /\ round_id = "registration"
    /\ IF registration_threshold_reached
       THEN /\ NewRound("randomness", PeriodState(participants))
            /\ Returned("end_block", "Some")
            /\ UNCHANGED <<params, open>>
       ELSE ReturnNone

\* ------------------------------------------------------ RandomnessRound
RandomnessPayload(sender, v) == [sender |-> sender, randomness |-> v]

\* The branch a per-sender handler takes for a payload.
Outcome(state, d, sender) ==
    IF sender \notin Get(state, "participants") THEN "not_participant"
    ELSE IF sender \in Keys(d) THEN "duplicate"
    ELSE "added"

\* randomness without the membership test on the sender
randomness_apply_unchecked(state, d, payload) ==
    IF payload.sender \in Keys(d) THEN d
    ELSE Put(d, payload.sender, payload)

randomness_apply(state, d, payload) ==
    IF payload.sender \notin Get(state, "participants") THEN d
    ELSE IF payload.sender \in Keys(d) THEN d
    ELSE Put(d, payload.sender, payload)

randomness(sender, v) ==
    /\ Deliverable("randomness", sender, v, 1)
    /\ round_dict' = randomness_apply(period_state, round_dict,
                                      RandomnessPayload(sender, v))
    /\ Returned("randomness", Outcome(period_state, round_dict, sender))
    /\ UNCHANGED <<params, open, round_id, participants, round_value, period_state>>

check_randomness(sender) ==
    /\ sender \in Get(period_state, "participants")
    /\ sender \notin Keys(round_dict)

Voted(d, attr) == [i \in DOMAIN d |-> d[i][2][attr]]

\* threshold_reached counting the payloads instead of the equal ones
threshold_reached_any == Len(round_dict) >= consensus_threshold

threshold_reached ==
    AnyCountReaches(Voted(round_dict, "randomness"), consensus_threshold)

most_voted_randomness ==
    MostVoted(Voted(round_dict, "randomness"), consensus_threshold)

\* end_block entering DeploySafe without a selection of the keeper
RandomnessEndBlock_skipping_selection ==
    /\ round_id = "randomness"
    /\ IF threshold_reached
       THEN /\ NewRound("deploy_safe",
                        update(period_state,
                               [participant_to_randomness |-> round_dict,
                                most_voted_randomness |-> most_voted_randomness]))
            /\ Returned("end_block", "Some")
            /\ UNCHANGED <<params, open>>
       ELSE ReturnNone

RandomnessEndBlock ==
    /\ round_id = "randomness"
    /\ IF threshold_reached
       THEN /\ NewRound("select_keeper_a",
                        update(period_state,
                               [participant_to_randomness |-> round_dict,
                                most_voted_randomness |-> most_voted_randomness]))
            /\ Returned("end_block", "Some")
            /\ UNCHANGED <<params, open>>
       ELSE ReturnNone

\* ---------------------------------------------------- SelectKeeperRound
SelectKeeperPayload(sender, keeper) == [sender |-> sender, keeper |-> keeper]

\* select_keeper without the membership test on the sender
select_keeper_apply_unchecked(state, d, payload) ==
    IF payload.sender \in Keys(d) THEN d
    ELSE Put(d, payload.sender, payload)

select_keeper_apply(state, d, payload) ==
    IF payload.sender \notin Get(state, "participants") THEN d
    ELSE IF payload.sender \in Keys(d) THEN d
    ELSE Put(d, payload.sender, payload)

\* SelectKeeperRound.select_keeper, reached through select_keeper_a and
\* select_keeper_b of the two subclasses.
select_keeper(rid, sender, keeper) ==
    /\ Deliverable(rid, sender, keeper, NextKeeper)
    /\ round_dict' = select_keeper_apply(period_state, round_dict,
                                         SelectKeeperPayload(sender, keeper))
    /\ Returned("select_keeper", Outcome(period_state, round_dict, sender))
    /\ UNCHANGED <<params, open, round_id, participants, round_value, period_state>>

select_keeper_a(sender, keeper) == select_keeper("select_keeper_a", sender, keeper)
select_keeper_b(sender, keeper) == select_keeper("select_keeper_b", sender, keeper)

\* the selection threshold met by any vote at all
selection_threshold_reached_nonempty == round_dict # <<>>

selection_threshold_reached ==
    AnyCountReaches(Voted(round_dict, "keeper"), consensus_threshold)

most_voted_keeper_address ==
    MostVoted(Voted(round_dict, "keeper"), consensus_threshold)

\* the two subclasses with their next_round_class exchanged
next_round_class_swapped(rid) ==
    IF rid = "select_keeper_a" THEN "finalization" ELSE "deploy_safe"

\* next_round_class of SelectKeeperARound and SelectKeeperBRound
next_round_class(rid) ==
    IF rid = "select_keeper_a" THEN "deploy_safe" ELSE "finalization"

SelectKeeperEndBlock(rid) ==
    /\ round_id = rid
    /\ IF selection_threshold_reached
       THEN /\ NewRound(next_round_class(rid),
                        update(period_state,
                               [participant_to_selection |-> round_dict,
                                most_voted_keeper_address |-> most_voted_keeper_address]))
            /\ Returned("end_block", "Some")
            /\ UNCHANGED <<params, open>>
       ELSE ReturnNone

SelectKeeperAEndBlock == SelectKeeperEndBlock("select_keeper_a")
SelectKeeperBEndBlock == SelectKeeperEndBlock("select_keeper_b")

\* ------------------------------------------------------ DeploySafeRound
\* The branch a keeper-only handler takes for a payload.
KeeperOutcome(state, value, sender) ==
    IF sender \notin Get(state, "participants") THEN "not_participant"
    ELSE IF sender # Get(state, "most_voted_keeper_address") THEN "not_keeper"
    ELSE IF value # None THEN "already_set"
    ELSE "added"

\* In a round that is not open the elected keeper delivers once.
KeeperDeliverable(rid, sender, content, field) ==
    /\ round_id = rid
    /\ \/ open = rid
       \/ /\ sender = Get(period_state, "most_voted_keeper_address")
          /\ round_value = None
          /\ content = Fresh(field)

DeploySafePayload(sender, a) == [sender |-> sender, safe_contract_address |-> a]

\* deploy_safe without the test for an address already set
deploy_safe_apply_overwrite(state, value, payload) ==
    IF payload.sender \notin Get(state, "participants") THEN value
    ELSE IF payload.sender # Get(state, "most_voted_keeper_address") THEN value
    ELSE Some(payload.safe_contract_address)

deploy_safe_apply(state, value, payload) ==
    IF payload.sender \notin Get(state, "participants") THEN value
    ELSE IF payload.sender # Get(state, "most_voted_keeper_address") THEN value
    ELSE IF value # None THEN value
    ELSE Some(payload.safe_contract_address)

deploy_safe(sender, a) ==
    /\ KeeperDeliverable("deploy_safe", sender, a, "safe_contract_address")
    /\ round_value' = deploy_safe_apply(period_state, round_value,
                                        DeploySafePayload(sender, a))
    /\ Returned("deploy_safe", KeeperOutcome(period_state, round_value, sender))
    /\ UNCHANGED <<params, open, round_id, participants, round_dict, period_state>>

is_contract_set == round_value # None

\* end_block building the next period state from the participants alone
DeploySafeEndBlock_fresh_state ==
    /\ round_id = "deploy_safe"
    /\ IF is_contract_set
       THEN /\ NewRound("validate_safe",
                        update(PeriodState(Get(period_state, "participants")),
                               [safe_contract_address |-> round_value[1]]))
            /\ Returned("end_block", "Some")
            /\ UNCHANGED <<params, open>>
       ELSE ReturnNone

DeploySafeEndBlock ==
    /\ round_id = "deploy_safe"
    /\ IF is_contract_set
       THEN /\ NewRound("validate_safe",
                        update(period_state,
                               [safe_contract_address |-> round_value[1]]))
            /\ Returned("end_block", "Some")
            /\ UNCHANGED <<params, open>>
       ELSE ReturnNone

\* -------------------------------------------------------- ValidateRound
ValidatePayload(sender, vote) == [sender |-> sender, vote |-> vote]

\* validate with a later vote of a sender replacing the earlier one
validate_apply_overwrite(state, d, payload) ==
    IF payload.sender \notin Get(state, "participants") THEN d
    ELSE Put(d, payload.sender, payload)

validate_apply(state, d, payload) ==
    IF payload.sender \notin Get(state, "participants") THEN d
    ELSE IF payload.sender \in Keys(d) THEN d
    ELSE Put(d, payload.sender, payload)

\* ValidateRound.validate, reached through validate_safe and
\* validate_transaction of the two subclasses.
validate(rid, sender, vote) ==
    /\ round_id = rid
    /\ \/ open = rid
       \/ /\ InTurn(sender)
          /\ vote = NominalVote(rid)
    /\ round_dict' = validate_apply(period_state, round_dict,
                                    ValidatePayload(sender, vote))
    /\ Returned("validate", Outcome(period_state, round_dict, sender))
    /\ UNCHANGED <<params, open, round_id, participants, round_value, period_state>>

validate_safe(sender, vote) == validate("validate_safe", sender, vote)
validate_transaction(sender, vote) == validate("validate_transaction", sender, vote)

\* sum([payload.vote for payload in self.participant_to_votes.values()])
true_votes == Cardinality({i \in DOMAIN round_dict : round_dict[i][2].vote})

\* the positive threshold counting the votes whatever they say
positive_vote_threshold_reached_any == Len(round_dict) >= consensus_threshold

positive_vote_threshold_reached == true_votes >= consensus_threshold

negative_vote_threshold_reached ==
    Len(round_dict) - true_votes >= consensus_threshold

\* a validation round that elects a new keeper whatever the outcome
positive_next_round_class_reelecting(rid) ==
    IF rid = "validate_safe" THEN "select_keeper_a" ELSE "select_keeper_b"

positive_next_round_class(rid) ==
    IF rid = "validate_safe" THEN "collect_observation" ELSE "consensus_reached"
negative_next_round_class(rid) ==
    IF rid = "validate_safe" THEN "select_keeper_a" ELSE "select_keeper_b"

\* end_block storing the votes of a failed validation as well
ValidateEndBlock_negative_writes(rid) ==
    /\ round_id = rid
    /\ IF positive_vote_threshold_reached
       THEN /\ NewRound(positive_next_round_class(rid),
                        update(period_state, [participant_to_votes |-> round_dict]))
            /\ Returned("end_block", "Some")
            /\ UNCHANGED <<params, open>>
       ELSE IF negative_vote_threshold_reached
       THEN /\ NewRound(negative_next_round_class(rid),
                        update(period_state, [participant_to_votes |-> round_dict]))
            /\ Returned("end_block", "Some")
            /\ UNCHANGED <<params, open>>
       ELSE ReturnNone

\* end_block testing the negative threshold before the positive one
ValidateEndBlock_negative_first(rid) ==
    /\ round_id = rid
    /\ IF negative_vote_threshold_reached
       THEN /\ NewRound(negative_next_round_class(rid),
                        update(period_state, <<>>))
            /\ Returned("end_block", "Some")
            /\ UNCHANGED <<params, open>>
       ELSE IF positive_vote_threshold_reached
       THEN /\ NewRound(positive_next_round_class(rid),
                        update(period_state, [participant_to_votes |-> round_dict]))
            /\ Returned("end_block", "Some")
            /\ UNCHANGED <<params, open>>
       ELSE ReturnNone

\* end_block handing the selections on record to the selection round it
\* enters after a failed validation
ValidateEndBlock_keeping_selections(rid) ==
    /\ round_id = rid
    /\ IF positive_vote_threshold_reached
       THEN /\ NewRound(positive_next_round_class(rid),
                        update(period_state, [participant_to_votes |-> round_dict]))
            /\ Returned("end_block", "Some")
            /\ UNCHANGED <<params, open>>
       ELSE IF negative_vote_threshold_reached
       THEN /\ round_id' = negative_next_round_class(rid)
            /\ period_state' = update(period_state, <<>>)
            /\ participants' = {}
            /\ round_dict' = Get(period_state, "participant_to_selection")
            /\ round_value' = None
            /\ Returned("end_block", "Some")
            /\ UNCHANGED <<params, open>>
       ELSE ReturnNone

ValidateEndBlock(rid) ==
    /\ round_id = rid
    /\ IF positive_vote_threshold_reached
       THEN /\ NewRound(positive_next_round_class(rid),
                        update(period_state, [participant_to_votes |-> round_dict]))
            /\ Returned("end_block", "Some")
            /\ UNCHANGED <<params, open>>
       ELSE IF negative_vote_threshold_reached
       THEN /\ NewRound(negative_next_round_class(rid),
                        update(period_state, <<>>))
            /\ Returned("end_block", "Some")
            /\ UNCHANGED <<params, open>>
       ELSE ReturnNone

ValidateSafeEndBlock == ValidateEndBlock("validate_safe")
ValidateTransactionEndBlock == ValidateEndBlock("validate_transaction")

\* ---------------------------------------------- CollectObservationRound
ObservationPayload(sender, v) == [sender |-> sender, observation |-> v]

\* observation without the membership test on the sender
observation_apply_unchecked(state, d, payload) ==
    IF payload.sender \in Keys(d) THEN d
    ELSE Put(d, payload.sender, payload)

observation_apply(state, d, payload) ==
    IF payload.sender \notin Get(state, "participants") THEN d
    ELSE IF payload.sender \in Keys(d) THEN d
    ELSE Put(d, payload.sender, payload)

observation(sender, v) ==
    /\ Deliverable("collect_observation", sender, v, 2)
    /\ round_dict' = observation_apply(period_state, round_dict,
                                       ObservationPayload(sender, v))
    /\ Returned("observation", Outcome(period_state, round_dict, sender))
    /\ UNCHANGED <<params, open, round_id, participants, round_value, period_state>>

observation_threshold_reached == Len(round_dict) >= consensus_threshold

\* The k-th smallest of a non-empty sequence of numbers.
Kth(vals, k) ==
    CHOOSE x \in Range(vals) :
        /\ Cardinality({i \in DOMAIN vals : vals[i] < x}) < k
        /\ Cardinality({i \in DOMAIN vals : vals[i] <= x}) >= k

\* tools.aggregate: the median, the mean of the two central values when
\* their number is even.
aggregate(vals) ==
    LET n == Len(vals)
    IN IF n % 2 = 1 THEN Kth(vals, (n + 1) \div 2)
       ELSE (Kth(vals, n \div 2) + Kth(vals, n \div 2 + 1)) \div 2

\* end_block aggregating the first consensus_threshold observations only
CollectObservationEndBlock_first_threshold ==
    /\ round_id = "collect_observation"
    /\ IF observation_threshold_reached
       THEN /\ NewRound("estimate_consensus",
                        update(period_state,
                               [participant_to_observations |-> round_dict,
                                estimate |-> aggregate(SubSeq(Voted(round_dict, "observation"),
                                                              1, consensus_threshold))]))
            /\ Returned("end_block", "Some")
            /\ UNCHANGED <<params, open>>
       ELSE ReturnNone

CollectObservationEndBlock ==
    /\ round_id = "collect_observation"
    /\ IF observation_threshold_reached
       THEN /\ NewRound("estimate_consensus",
                        update(period_state,
                               [participant_to_observations |-> round_dict,
                                estimate |-> aggregate(Voted(round_dict, "observation"))]))
            /\ Returned("end_block", "Some")
            /\ UNCHANGED <<params, open>>
       ELSE ReturnNone

\* ----------------------------------------------- EstimateConsensusRound
EstimatePayload(sender, v) == [sender |-> sender, estimate |-> v]

\* estimate without the test for an earlier estimate of the sender
estimate_apply_overwrite(state, d, payload) ==
    IF payload.sender \notin Get(state, "participants") THEN d
    ELSE Put(d, payload.sender, payload)

estimate_apply(state, d, payload) ==
    IF payload.sender \notin Get(state, "participants") THEN d
    ELSE IF payload.sender \in Keys(d) THEN d
    ELSE Put(d, payload.sender, payload)

estimate(sender, v) ==
    /\ Deliverable("estimate_consensus", sender, v, 2)
    /\ round_dict' = estimate_apply(period_state, round_dict,
                                    EstimatePayload(sender, v))
    /\ Returned("estimate", Outcome(period_state, round_dict, sender))
    /\ UNCHANGED <<params, open, round_id, participants, round_value, period_state>>

estimate_threshold_reached ==
    AnyCountReaches(Voted(round_dict, "estimate"), consensus_threshold)

most_voted_estimate ==
    MostVoted(Voted(round_dict, "estimate"), consensus_threshold)

\* end_block taking any of the estimates with the maximal count, as an
\* iteration in an order that differs between processes would
EstimateConsensusEndBlock_any_winner ==
    /\ round_id = "estimate_consensus"
    /\ IF estimate_threshold_reached
       THEN /\ \E w \in VotedValues(round_dict, "estimate") :
                   /\ \A v \in VotedValues(round_dict, "estimate") :
                          VotesFor(round_dict, "estimate", v)
                              <= VotesFor(round_dict, "estimate", w)
                   /\ NewRound("tx_hash",
                               update(period_state,
                                      [participant_to_estimate |-> round_dict,
                                       most_voted_estimate |-> w]))
            /\ Returned("end_block", "Some")
            /\ UNCHANGED <<params, open>>
       ELSE ReturnNone

EstimateConsensusEndBlock ==
    /\ round_id = "estimate_consensus"
    /\ IF estimate_threshold_reached
       THEN /\ NewRound("tx_hash",
                        update(period_state,
                               [participant_to_estimate |-> round_dict,
                                most_voted_estimate |-> most_voted_estimate]))
            /\ Returned("end_block", "Some")
            /\ UNCHANGED <<params, open>>
       ELSE ReturnNone

\* ---------------------------------------------------------- TxHashRound
TransactionHashPayload(sender, v) == [sender |-> sender, tx_hash |-> v]

tx_hash_apply(state, d, payload) ==
    IF payload.sender \notin Get(state, "participants") THEN d
    ELSE IF payload.sender \in Keys(d) THEN d
    ELSE Put(d, payload.sender, payload)

tx_hash(sender, v) ==
    /\ Deliverable("tx_hash", sender, v, 1)
    /\ round_dict' = tx_hash_apply(period_state, round_dict,
                                   TransactionHashPayload(sender, v))
    /\ Returned("tx_hash", Outcome(period_state, round_dict, sender))
    /\ UNCHANGED <<params, open, round_id, participants, round_value, period_state>>

\* tx_threshold_reached asking for exactly the threshold count
tx_threshold_reached_exact ==
    \E v \in Range(Voted(round_dict, "tx_hash")) :
        CounterCount(Voted(round_dict, "tx_hash"), v) = consensus_threshold

tx_threshold_reached ==
    AnyCountReaches(Voted(round_dict, "tx_hash"), consensus_threshold)

most_voted_tx_hash ==
    MostVoted(Voted(round_dict, "tx_hash"), consensus_threshold)

TxHashEndBlock ==
    /\ round_id = "tx_hash"
    /\ IF tx_threshold_reached
       THEN /\ NewRound("collect_signature",
                        update(period_state,
                               [participant_to_tx_hash |-> round_dict,
                                most_voted_tx_hash |-> most_voted_tx_hash]))
            /\ Returned("end_block", "Some")
            /\ UNCHANGED <<params, open>>
       ELSE ReturnNone

\* ------------------------------------------------ CollectSignatureRound
SignaturePayload(sender, v) == [sender |-> sender, signature |-> v]

\* signature with a later signature of a sender replacing the earlier one
signature_apply_overwrite(state, d, payload) ==
    IF payload.sender \notin Get(state, "participants") THEN d
    ELSE Put(d, payload.sender, payload.signature)

\* signatures_by_participant holds the signature, not the payload.
signature_apply(state, d, payload) ==
    IF payload.sender \notin Get(state, "participants") THEN d
    ELSE IF payload.sender \in Keys(d) THEN d
    ELSE Put(d, payload.sender, payload.signature)

signature(sender, v) ==
    /\ Deliverable("collect_signature", sender, v, 1)
    /\ round_dict' = signature_apply(period_state, round_dict,
                                     SignaturePayload(sender, v))
    /\ Returned("signature", Outcome(period_state, round_dict, sender))
    /\ UNCHANGED <<params, open, round_id, participants, round_value, period_state>>

signature_threshold_reached == Len(round_dict) >= consensus_threshold

\* end_block discarding the signatures collected so far when it returns None
CollectSignatureEndBlock_resetting ==
    /\ round_id = "collect_signature"
    /\ IF signature_threshold_reached
       THEN /\ NewRound("finalization",
                        update(period_state,
                               [participant_to_signature |-> round_dict]))
            /\ Returned("end_block", "Some")
            /\ UNCHANGED <<params, open>>
       ELSE /\ round_dict' = <<>>
            /\ Returned("end_block", "None")
            /\ UNCHANGED <<params, open, round_id, participants, round_value,
                           period_state>>

CollectSignatureEndBlock ==
    /\ round_id = "collect_signature"
    /\ IF signature_threshold_reached
       THEN /\ NewRound("finalization",
                        update(period_state,
                               [participant_to_signature |-> round_dict]))
            /\ Returned("end_block", "Some")
            /\ UNCHANGED <<params, open>>
       ELSE ReturnNone

\* ---------------------------------------------------- FinalizationRound
FinalizationTxPayload(sender, v) == [sender |-> sender, tx_hash |-> v]

\* finalization without the membership test on the sender
finalization_apply_unchecked(state, value, payload) ==
    IF payload.sender # Get(state, "most_voted_keeper_address") THEN value
    ELSE IF value # None THEN value
    ELSE Some(payload.tx_hash)

finalization_apply(state, value, payload) ==
    IF payload.sender \notin Get(state, "participants") THEN value
    ELSE IF payload.sender # Get(state, "most_voted_keeper_address") THEN value
    ELSE IF value # None THEN value
    ELSE Some(payload.tx_hash)

finalization(sender, v) ==
    /\ KeeperDeliverable("finalization", sender, v, "final_tx_hash")
    /\ round_value' = finalization_apply(period_state, round_value,
                                         FinalizationTxPayload(sender, v))
    /\ Returned("finalization", KeeperOutcome(period_state, round_value, sender))
    /\ UNCHANGED <<params, open, round_id, participants, round_dict, period_state>>

tx_hash_set == round_value # None

\* end_block storing the keeper's hash as the most voted tx hash
FinalizationEndBlock_most_voted ==
    /\ round_id = "finalization"
    /\ IF tx_hash_set
       THEN /\ NewRound("validate_transaction",
                        update(period_state, [most_voted_tx_hash |-> round_value[1]]))
            /\ Returned("end_block", "Some")
            /\ UNCHANGED <<params, open>>
       ELSE ReturnNone

FinalizationEndBlock ==
    /\ round_id = "finalization"
    /\ IF tx_hash_set
       THEN /\ NewRound("validate_transaction",
                        update(period_state, [final_tx_hash |-> round_value[1]]))
            /\ Returned("end_block", "Some")
            /\ UNCHANGED <<params, open>>
       ELSE ReturnNone

\* ------------------------------------------------ ConsensusReachedRound
\* ConsensusReachedRound defines no payload handler: a payload delivered to
\* it finds none and is dropped.
ConsensusReachedPayload(sender) ==
    /\ round_id = "consensus_reached"
    /\ Returned("payload", "no_handler")
    /\ UNCHANGED <<params, open, progvars>>

\* end_block starting a new period instead of returning None
ConsensusReachedEndBlock_restart ==
    /\ round_id = "consensus_reached"
    /\ NewRound("registration", period_state)
    /\ Returned("end_block", "Some")
    /\ UNCHANGED <<params, open>>

ConsensusReachedEndBlock ==
    /\ round_id = "consensus_reached"
    /\ ReturnNone

\* ----------------------------------------------------------------- spec
EndBlock ==
    \/ RegistrationEndBlock
    \/ RandomnessEndBlock
    \/ SelectKeeperAEndBlock
    \/ SelectKeeperBEndBlock
    \/ DeploySafeEndBlock
    \/ ValidateSafeEndBlock
    \/ ValidateTransactionEndBlock
    \/ CollectObservationEndBlock
    \/ EstimateConsensusEndBlock
    \/ TxHashEndBlock
    \/ CollectSignatureEndBlock
    \/ FinalizationEndBlock
    \/ ConsensusReachedEndBlock

\* The payloads an address can deliver to the current round.
ApplyFrom(s) ==
    \/ registration(s)
    \/ \E v \in Values : randomness(s, v)
    \/ \E k \in Addresses : select_keeper_a(s, k)
    \/ \E k \in Addresses : select_keeper_b(s, k)
    \/ \E v \in Values : deploy_safe(s, v)
    \/ \E b \in BOOLEAN : validate_safe(s, b)
    \/ \E b \in BOOLEAN : validate_transaction(s, b)
    \/ \E v \in Observations : observation(s, v)
    \/ \E v \in Observations : estimate(s, v)
    \/ \E v \in Values : tx_hash(s, v)
    \/ \E v \in Values : signature(s, v)
    \/ \E v \in Values : finalization(s, v)
    \/ ConsensusReachedPayload(s)

Apply == \E s \in Addresses : ApplyFrom(s)

Next == Apply \/ EndBlock

Spec == Init /\ [][Next]_vars

\* ----------------------------------------------- retired round objects
\* end_block hands the round's dict to the period state as
\* MappingProxyType(dict), a view of the dict and not a copy of it.  The round
\* object that made a transition is still there after it, and a payload
\* applied to it is stored by its handler in that dict, so that the map of
\* the period state shows the new entry.

\* The map `field` of the current period state is the view of the dict of a
\* round object with round id rid.  participant_to_selection and
\* participant_to_votes are written by two rounds each, and belong to the
\* object that wrote them last: the selection to SelectKeeperA at least
\* until a transaction is finalized, and to SelectKeeperB when Finalization
\* is entered again.
ProducedBy(rid, field) ==
    /\ period_state[field] # None
    /\ CASE rid = "select_keeper_a" -> period_state.final_tx_hash = None
         [] rid = "select_keeper_b" ->
                round_id = "finalization" /\ period_state.final_tx_hash # None
         [] rid = "validate_safe" -> round_id # "consensus_reached"
         [] rid = "validate_transaction" -> round_id = "consensus_reached"
         [] OTHER -> TRUE

\* A handler of the retired round object of round rid has run and has left
\* its dict as d.  Payloads reach a retired object of the open round only.
RetiredPayload(rid, field, d) ==
    /\ open = rid
    /\ ProducedBy(rid, field)
    /\ period_state' = [period_state EXCEPT ![field] = Some(d)]
    /\ Returned("retired_payload",
                IF d = Get(period_state, field) THEN "dropped" ELSE "added")
    /\ UNCHANGED <<params, open, round_id, participants, round_dict, round_value>>

retired_randomness(sender, v) ==
    RetiredPayload("randomness", "participant_to_randomness",
                   randomness_apply(period_state,
                                    Get(period_state, "participant_to_randomness"),
                                    RandomnessPayload(sender, v)))
retired_select_keeper(rid, sender, keeper) ==
    RetiredPayload(rid, "participant_to_selection",
                   select_keeper_apply(period_state,
                                       Get(period_state, "participant_to_selection"),
                                       SelectKeeperPayload(sender, keeper)))
retired_validate(rid, sender, vote) ==
    RetiredPayload(rid, "participant_to_votes",
                   validate_apply(period_state,
                                  Get(period_state, "participant_to_votes"),
                                  ValidatePayload(sender, vote)))
retired_observation(sender, v) ==
    RetiredPayload("collect_observation", "participant_to_observations",
                   observation_apply(period_state,
                                     Get(period_state, "participant_to_observations"),
                                     ObservationPayload(sender, v)))
retired_estimate(sender, v) ==
    RetiredPayload("estimate_consensus", "participant_to_estimate",
                   estimate_apply(period_state,
                                  Get(period_state, "participant_to_estimate"),
                                  EstimatePayload(sender, v)))
retired_tx_hash(sender, v) ==
    RetiredPayload("tx_hash", "participant_to_tx_hash",
                   tx_hash_apply(period_state,
                                 Get(period_state, "participant_to_tx_hash"),
                                 TransactionHashPayload(sender, v)))
retired_signature(sender, v) ==
    RetiredPayload("collect_signature", "participant_to_signature",
                   signature_apply(period_state,
                                   Get(period_state, "participant_to_signature"),
                                   SignaturePayload(sender, v)))

RetiredApplyFrom(s) ==
    \/ \E v \in Values : retired_randomness(s, v)
    \/ \E k \in Addresses : retired_select_keeper("select_keeper_a", s, k)
    \/ \E k \in Addresses : retired_select_keeper("select_keeper_b", s, k)
    \/ \E b \in BOOLEAN : retired_validate("validate_safe", s, b)
    \/ \E b \in BOOLEAN : retired_validate("validate_transaction", s, b)
    \/ \E v \in Observations : retired_observation(s, v)
    \/ \E v \in Observations : retired_estimate(s, v)
    \/ \E v \in Values : retired_tx_hash(s, v)
    \/ \E v \in Values : retired_signature(s, v)

RetiredApply == \E s \in Addresses : RetiredApplyFrom(s)

NextRetired == Next \/ RetiredApply

\* The round objects under a caller that keeps a round object after its
\* transition and goes on applying payloads to it.
SpecRetired == Init /\ [][NextRetired]_vars

\* ------------------------------------------------ reads of the properties
\* enforce(is_valid_condition, message): an AEAEnforceError unless the
\* condition holds.
enforce(is_valid_condition) ==
    IF is_valid_condition THEN "value" ELSE "AEAEnforceError"

\* A read of a property of the period state.
ReadField(f) ==
    /\ Returned("read", enforce(period_state[f] # None))
    /\ UNCHANGED <<params, open, progvars>>

\* The most_voted_* property of the current round.
most_voted ==
    CASE round_id = "randomness" -> most_voted_randomness
      [] round_id \in {"select_keeper_a", "select_keeper_b"} ->
            most_voted_keeper_address
      [] round_id = "estimate_consensus" -> most_voted_estimate
      [] round_id = "tx_hash" -> most_voted_tx_hash

\* A read of the most_voted_* property of the current round.
MostVotedRequest ==
    /\ round_id \in {"randomness", "select_keeper_a", "select_keeper_b",
                     "estimate_consensus", "tx_hash"}
    /\ Returned("most_voted",
                IF most_voted = ValueError THEN "ValueError" ELSE "value")
    /\ UNCHANGED <<params, open, progvars>>

Reads ==
    \/ \E f \in Fields : ReadField(f)
    \/ MostVotedRequest

NextReads == Next \/ Reads

\* The round objects under a caller that also reads their properties and
\* those of the period state at any time.
SpecReads == Init /\ [][NextReads]_vars

\* ------------------------------------------- derived values of PeriodState
\* A str is the sequence of its characters.
HexDigits == <<"0", "1", "2", "3", "4", "5", "6", "7",
               "8", "9", "a", "b", "c", "d", "e", "f">>
DigitValue(c) == (CHOOSE i \in DOMAIN HexDigits : HexDigits[i] = c) - 1

\* The strings int(_, base=16) is applied to: hexadecimal digits, with or
\* without a sign.
HexStrings ==
    LET digits == UNION { [1..n -> Range(HexDigits)] : n \in 1..MaxHexLen }
    IN digits \cup { <<"-">> \o s : s \in digits }

RECURSIVE digits_value(_, _)
digits_value(s, base) ==
    IF s = <<>> THEN 0
    ELSE base * digits_value(SubSeq(s, 1, Len(s) - 1), base)
             + DigitValue(s[Len(s)])

\* int(s, base=16)
int(s, base) ==
    IF Head(s) = "-" THEN 0 - digits_value(Tail(s), base)
    ELSE digits_value(s, base)

RECURSIVE Pow(_, _)
Pow(b, n) == IF n = 0 THEN 1 ELSE b * Pow(b, n - 1)

\* a // b and a % b of Python round towards minus infinity, as \div and % do.
FloorDiv(a, b) == a \div b
Mod(a, b) == a % b
\* a / b of two ints, kept as the fraction.
TrueDiv(a, b) == <<a, b>>

\* keeper_randomness taking the last hexadecimal digit of the string
keeper_randomness_hex_digit(state) ==
    LET s == Get(state, "most_voted_randomness")
    IN TrueDiv(DigitValue(s[Len(s)]), 10)

\* ** binds tighter than // and %, which associate to the left.
keeper_randomness(state) ==
    LET res == Mod(FloorDiv(int(Get(state, "most_voted_randomness"), 16),
                            Pow(10, 0)),
                   10)
    IN TrueDiv(res, 10)

\* A float that is zero or normal: (-1)^sign * mant * 2^exp with mant odd,
\* and mant = 0, exp = 0 for the two zeros.
Doubles ==
    { [sign |-> s, mant |-> m, exp |-> e] :
          s \in {0, 1},
          m \in { n \in 1..MaxMantissa : n % 2 = 1 },
          e \in (0 - MaxExponent)..MaxExponent }
    \cup { [sign |-> s, mant |-> 0, exp |-> 0] : s \in {0, 1} }

RECURSIVE BitLength(_)
BitLength(n) == IF n = 0 THEN 0 ELSE 1 + BitLength(n \div 2)

\* The w low bits of n, the most significant one first.
Bits(n, w) == [i \in 1..w |-> (n \div Pow(2, w - i)) % 2]
Zeros(w) == [i \in 1..w |-> 0]

RECURSIVE BitsValue(_)
BitsValue(bits) ==
    IF bits = <<>> THEN 0
    ELSE 2 * BitsValue(SubSeq(bits, 1, Len(bits) - 1)) + bits[Len(bits)]

\* IEEE-754 binary64: the sign, 11 bits of the exponent biased by 1023 and
\* the 52 bits of the significand after its leading one.
binary64(value) ==
    IF value.mant = 0 THEN <<value.sign>> \o Zeros(63)
    ELSE LET k == BitLength(value.mant) - 1
         IN <<value.sign>>
                \o Bits(value.exp + k + 1023, 11)
                \o Bits(value.mant - Pow(2, k), k)
                \o Zeros(52 - k)

Reverse(s) == [i \in DOMAIN s |-> s[Len(s) + 1 - i]]

BytesOf(bits) ==
    [k \in 1..(Len(bits) \div 8) |-> BitsValue(SubSeq(bits, 8 * k - 7, 8 * k))]
BitsOf(bytes) ==
    [i \in 1..(8 * Len(bytes)) |-> Bits(bytes[(i + 7) \div 8], 8)[((i - 1) % 8) + 1]]

\* struct.pack("d", value): the format has no byte order character, so the
\* bytes are in the byte order of the host.
pack_d(byteorder, value) ==
    IF byteorder = "big" THEN BytesOf(binary64(value))
    ELSE Reverse(BytesOf(binary64(value)))

\* struct.unpack of 8 bytes in the given byte order
unpack_d(byteorder, bytes) ==
    LET bits == BitsOf(IF byteorder = "big" THEN bytes ELSE Reverse(bytes))
        frac == SubSeq(bits, 13, 64)
        ones == { i \in DOMAIN frac : frac[i] = 1 }
        k    == IF ones = {} THEN 0 ELSE CHOOSE i \in ones : \A j \in ones : j <= i
    IN IF SubSeq(bits, 2, 64) = Zeros(63)
       THEN [sign |-> bits[1], mant |-> 0, exp |-> 0]
       ELSE [sign |-> bits[1],
             mant |-> Pow(2, k) + BitsValue(SubSeq(frac, 1, k)),
             exp  |-> BitsValue(SubSeq(bits, 2, 12)) - 1023 - k]

encode_float(byteorder, value) == pack_d(byteorder, value)

encoded_most_voted_estimate(byteorder, state) ==
    encode_float(byteorder, Get(state, "most_voted_estimate"))

\* A PeriodState that holds a most voted randomness or a most voted estimate,
\* in the hands of a round without handlers.
InitPeriodState ==
    /\ max_participants = 1
    /\ consensus_threshold = 1
    /\ open = "consensus_reached"
    /\ round_id = "consensus_reached"
    /\ participants = {}
    /\ round_dict = <<>>
    /\ round_value = None
    /\ \/ \E s \in HexStrings :
              period_state =
                  [EmptyPeriodState EXCEPT !.most_voted_randomness = Some(s)]
       \/ \E d \in Doubles :
              period_state =
                  [EmptyPeriodState EXCEPT !.most_voted_estimate = Some(d)]
    /\ last = [op |-> "init", ret |-> "None"]

KeeperRandomnessRead ==
    /\ Returned("keeper_randomness",
                IF period_state.most_voted_randomness = None
                THEN "AEAEnforceError"
                ELSE keeper_randomness(period_state))
    /\ UNCHANGED <<params, open, progvars>>

\* The byte order is the one of the host the agent runs on.
EncodedEstimateRead ==
    \E byteorder \in {"little", "big"} :
        /\ Returned("encoded_most_voted_estimate",
                    IF period_state.most_voted_estimate = None
                    THEN "AEAEnforceError"
                    ELSE encoded_most_voted_estimate(byteorder, period_state))
        /\ UNCHANGED <<params, open, progvars>>

NextPeriodState == KeeperRandomnessRead \/ EncodedEstimateRead

SpecPeriodState == InitPeriodState /\ [][NextPeriodState]_vars

\* ----------------------------------------------------- an agreeing period
\* A period without an open round: exactly max_participants addresses
\* register, every participant delivers the same content in each round, the
\* elected keeper is a participant and delivers in the keeper-only rounds,
\* every validation vote is True, and consensus_threshold is at most
\* max_participants.  Payloads keep being delivered and end_block keeps being
\* called, once per block.
InitHappy ==
    /\ max_participants \in 1..MaxParticipants
    /\ consensus_threshold \in 1..max_participants
    /\ open = "consensus_reached"
    /\ round_id = "registration"
    /\ participants = {}
    /\ round_dict = <<>>
    /\ round_value = None
    /\ period_state = EmptyPeriodState
    /\ last = [op |-> "init", ret |-> "None"]

ApplyHappyFrom(s) ==
    \/ registration(s)
    \/ \E v \in Values : randomness(s, v)
    \/ \E k \in Addresses : select_keeper_a(s, k)
    \/ \E v \in Values : deploy_safe(s, v)
    \/ \E b \in BOOLEAN : validate_safe(s, b)
    \/ \E b \in BOOLEAN : validate_transaction(s, b)
    \/ \E v \in Observations : observation(s, v)
    \/ \E v \in Observations : estimate(s, v)
    \/ \E v \in Values : tx_hash(s, v)
    \/ \E v \in Values : signature(s, v)
    \/ \E v \in Values : finalization(s, v)
    \/ ConsensusReachedPayload(s)

ApplyHappy == \E s \in Addresses : ApplyHappyFrom(s)

EndBlockHappy ==
    \/ RegistrationEndBlock
    \/ RandomnessEndBlock
    \/ SelectKeeperAEndBlock
    \/ DeploySafeEndBlock
    \/ ValidateSafeEndBlock
    \/ ValidateTransactionEndBlock
    \/ CollectObservationEndBlock
    \/ EstimateConsensusEndBlock
    \/ TxHashEndBlock
    \/ CollectSignatureEndBlock
    \/ FinalizationEndBlock
    \/ ConsensusReachedEndBlock

NextHappy == ApplyHappy \/ EndBlockHappy

SpecHappy ==
    /\ InitHappy
    /\ [][NextHappy]_vars
    /\ WF_vars(ApplyHappy)
    /\ WF_vars(EndBlockHappy)

\* ------------------------------------------------- checks of the payloads
\* The check_<payload> methods read the sender of the payload only.
check_registration(sender) == TRUE

check_select_keeper(sender) ==
    /\ sender \in Get(period_state, "participants")
    /\ sender \notin Keys(round_dict)
check_select_keeper_a(sender) == check_select_keeper(sender)
check_select_keeper_b(sender) == check_select_keeper(sender)

check_deploy_safe(sender) ==
    LET sender_in_participant_set == sender \in Get(period_state, "participants")
        sender_is_elected_sender ==
            sender = Get(period_state, "most_voted_keeper_address")
        contract_address_not_set_yet == round_value = None
    IN /\ sender_in_participant_set
       /\ sender_is_elected_sender
       /\ contract_address_not_set_yet

\* check_validate asking for a participant only
check_validate_membership_only(sender) ==
    sender \in Get(period_state, "participants")

check_validate(sender) ==
    /\ sender \in Get(period_state, "participants")
    /\ sender \notin Keys(round_dict)
check_validate_safe(sender) == check_validate(sender)
check_validate_transaction(sender) == check_validate(sender)

check_observation(sender) ==
    /\ sender \in Get(period_state, "participants")
    /\ sender \notin Keys(round_dict)

check_estimate(sender) ==
    /\ sender \in Get(period_state, "participants")
    /\ sender \notin Keys(round_dict)

check_tx_hash(sender) ==
    /\ sender \in Get(period_state, "participants")
    /\ sender \notin Keys(round_dict)

check_signature(sender) ==
    /\ sender \in Get(period_state, "participants")
    /\ sender \notin Keys(round_dict)

check_finalization(sender) ==
    LET sender_in_participant_set == sender \in Get(period_state, "participants")
        sender_is_elected_sender ==
            sender = Get(period_state, "most_voted_keeper_address")
        tx_hash_not_set_yet == round_value = None
    IN /\ sender_in_participant_set
       /\ sender_is_elected_sender
       /\ tx_hash_not_set_yet

\* The check method of the current round, for a payload of its kind.
check(sender) ==
    CASE round_id = "registration" -> check_registration(sender)
      [] round_id = "randomness" -> check_randomness(sender)
      [] round_id = "select_keeper_a" -> check_select_keeper_a(sender)
      [] round_id = "select_keeper_b" -> check_select_keeper_b(sender)
      [] round_id = "deploy_safe" -> check_deploy_safe(sender)
      [] round_id = "validate_safe" -> check_validate_safe(sender)
      [] round_id = "validate_transaction" -> check_validate_transaction(sender)
      [] round_id = "collect_observation" -> check_observation(sender)
      [] round_id = "estimate_consensus" -> check_estimate(sender)
      [] round_id = "tx_hash" -> check_tx_hash(sender)
      [] round_id = "collect_signature" -> check_signature(sender)
      [] round_id = "finalization" -> check_finalization(sender)

\* The driver asks the current round whether a payload can be applied.
CheckPayload(sender) ==
    /\ round_id # "consensus_reached"
    /\ Returned("check", IF check(sender) THEN "True" ELSE "False")
    /\ UNCHANGED <<params, open, progvars>>

Checks == \E s \in Addresses : CheckPayload(s)

NextChecks == Next \/ Checks

SpecChecks == Init /\ [][NextChecks]_vars

\* ------------------------------------------------------------ properties
PluralityRounds ==
    { "randomness", "select_keeper_a", "select_keeper_b", "estimate_consensus",
      "tx_hash" }
CountRounds == { "collect_observation", "collect_signature" }
KeeperOnlyRounds == { "deploy_safe", "finalization" }
ValidateRounds == { "validate_safe", "validate_transaction" }

\* The attribute a plurality round counts.
VotedAttr(rid) ==
    CASE rid = "randomness" -> "randomness"
      [] rid \in {"select_keeper_a", "select_keeper_b"} -> "keeper"
      [] rid = "estimate_consensus" -> "estimate"
      [] rid = "tx_hash" -> "tx_hash"

\* The threshold predicate of the current round, stated on the round's state.
ThresholdHolds ==
    CASE round_id = "registration" -> Cardinality(participants) = max_participants
      [] round_id \in PluralityRounds ->
            \E v \in VotedValues(round_dict, VotedAttr(round_id)) :
                VotesFor(round_dict, VotedAttr(round_id), v) >= consensus_threshold
      [] round_id \in CountRounds -> Len(round_dict) >= consensus_threshold
      [] round_id \in KeeperOnlyRounds -> round_value # None
      [] round_id \in ValidateRounds ->
            \/ VotesFor(round_dict, "vote", TRUE) >= consensus_threshold
            \/ VotesFor(round_dict, "vote", FALSE) >= consensus_threshold
      [] round_id = "consensus_reached" -> FALSE

Edges ==
    { <<"registration", "randomness">>,
      <<"randomness", "select_keeper_a">>,
      <<"select_keeper_a", "deploy_safe">>,
      <<"deploy_safe", "validate_safe">>,
      <<"validate_safe", "collect_observation">>,
      <<"validate_safe", "select_keeper_a">>,
      <<"collect_observation", "estimate_consensus">>,
      <<"estimate_consensus", "tx_hash">>,
      <<"tx_hash", "collect_signature">>,
      <<"collect_signature", "finalization">>,
      <<"finalization", "validate_transaction">>,
      <<"validate_transaction", "consensus_reached">>,
      <<"validate_transaction", "select_keeper_b">> ,
      <<"select_keeper_b", "finalization">> }

C2_EndBlockOnlyAtThreshold ==
    [][last'.op = "end_block" =>
          /\ last'.ret = "Some" => ThresholdHolds
          /\ ~ThresholdHolds => (last'.ret = "None" /\ UNCHANGED progvars)
          /\ last'.ret = "None" => UNCHANGED progvars]_vars
\* end_block returned None in a validate round that holds votes.
C2_Witness ==
    /\ round_id = "validate_safe"
    /\ round_dict # <<>>
    /\ ~ThresholdHolds
    /\ last = [op |-> "end_block", ret |-> "None"]

\* C3: after Registration every sender recorded by the current round is a
\* participant, and so is the keeper once its payload has set the value of
\* a keeper-only round.
C3_SendersAreParticipants ==
    round_id # "registration" =>
        /\ Keys(round_dict) \subseteq Get(period_state, "participants")
        /\ round_value # None =>
               Get(period_state, "most_voted_keeper_address")
                   \in Get(period_state, "participants")
\* A round that has admitted a payload has just dropped an outsider's.
C3_Witness ==
    /\ round_id = "randomness"
    /\ round_dict # <<>>
    /\ last = [op |-> "randomness", ret |-> "not_participant"]

\* C4: after Registration a payload whose sender is not a participant
\* changes neither the round's state nor the period state.
C4_OutsiderDropped ==
    [][\A s \in Addresses :
          ( /\ round_id # "registration"
            /\ s \notin Get(period_state, "participants")
            /\ ApplyFrom(s) ) => UNCHANGED progvars]_vars
\* An outsider's observation was dropped by a round that holds observations.
C4_Witness ==
    /\ round_id = "collect_observation"
    /\ round_dict # <<>>
    /\ last = [op |-> "observation", ret |-> "not_participant"]

\* The sender has a payload recorded by the current round.
Recorded(s) ==
    IF round_id = "registration" THEN s \in participants
    ELSE IF round_id \in KeeperOnlyRounds
         THEN round_value # None /\ s = Get(period_state, "most_voted_keeper_address")
         ELSE s \in Keys(round_dict)

\* C5: a round records at most one payload per sender, and a further payload
\* of a recorded sender, whatever its content, changes nothing.
C5_OnePayloadPerSender ==
    [][/\ \A i, j \in DOMAIN round_dict' :
              round_dict'[i][1] = round_dict'[j][1] => i = j
       /\ \A s \in Addresses :
              (Recorded(s) /\ ApplyFrom(s)) => UNCHANGED progvars]_vars
\* A second estimate of a sender was dropped.
C5_Witness ==
    /\ round_id = "estimate_consensus"
    /\ last = [op |-> "estimate", ret |-> "duplicate"]

\* C6: in every round a threshold predicate that holds keeps holding while
\* further payloads are applied to the round.
C6_ThresholdMonotone ==
    [][(round_id' = round_id /\ ThresholdHolds) => ThresholdHolds']_vars
\* The same for the rounds after Registration.
C6_ThresholdMonotoneAfterRegistration ==
    [][(round_id # "registration" /\ round_id' = round_id /\ ThresholdHolds)
          => ThresholdHolds']_vars

\* The threshold predicate of a plurality round, as the round computes it.
PluralityThreshold ==
    CASE round_id = "randomness" -> threshold_reached
      [] round_id \in {"select_keeper_a", "select_keeper_b"} ->
            selection_threshold_reached
      [] round_id = "estimate_consensus" -> estimate_threshold_reached
      [] round_id = "tx_hash" -> tx_threshold_reached

\* C7: in a plurality round a value that has consensus_threshold votes keeps
\* at least the votes it has, and the threshold predicate stays true, under
\* every further payload.
C7_PluralityMonotone ==
    [][(round_id \in PluralityRounds /\ round_id' = round_id) =>
          /\ \A v \in VotedValues(round_dict, VotedAttr(round_id)) :
                 VotesFor(round_dict, VotedAttr(round_id), v) >= consensus_threshold
                 => VotesFor(round_dict', VotedAttr(round_id), v)
                        >= VotesFor(round_dict, VotedAttr(round_id), v)
          /\ ThresholdHolds => (PluralityThreshold /\ PluralityThreshold')]_vars
\* A tx hash was admitted by a round whose threshold held before it came.
C7_Witness ==
    /\ round_id = "tx_hash"
    /\ last = [op |-> "tx_hash", ret |-> "added"]
    /\ Len(round_dict) > 1
    /\ \E v \in Values :
           VotesFor(SubSeq(round_dict, 1, Len(round_dict) - 1), "tx_hash", v)
               >= consensus_threshold

\* The fields no round is entered twice to write.
WriteOnceFields ==
    { "participants", "participant_to_randomness", "most_voted_randomness",
      "participant_to_observations", "estimate", "participant_to_estimate",
      "most_voted_estimate", "participant_to_tx_hash", "most_voted_tx_hash",
      "participant_to_signature" }
\* The rounds whose end_block writes a field.
Writers(f) ==
    CASE f = "participants" -> {"registration"}
      [] f \in {"participant_to_randomness", "most_voted_randomness"} ->
            {"randomness"}
      [] f \in {"participant_to_selection", "most_voted_keeper_address"} ->
            {"select_keeper_a", "select_keeper_b"}
      [] f = "safe_contract_address" -> {"deploy_safe"}
      [] f = "participant_to_votes" -> ValidateRounds
      [] f \in {"participant_to_observations", "estimate"} ->
            {"collect_observation"}
      [] f \in {"participant_to_estimate", "most_voted_estimate"} ->
            {"estimate_consensus"}
      [] f \in {"participant_to_tx_hash", "most_voted_tx_hash"} -> {"tx_hash"}
      [] f = "participant_to_signature" -> {"collect_signature"}
      [] f = "final_tx_hash" -> {"finalization"}

\* C8 as stated: a field of the period state that is populated never changes.
C8_FieldsNeverRewritten ==
    [][\A f \in Fields :
          period_state[f] # None => period_state'[f] = period_state[f]]_vars
\* C8 amended: a field changes only in a transition of a round that writes
\* it, a populated field never becomes None, and the fields of the rounds
\* that are entered once never change once populated.
C8_FieldsWrittenByTheirRound ==
    [][\A f \in Fields :
          /\ period_state'[f] # period_state[f] =>
                 /\ round_id \in Writers(f)
                 /\ last' = [op |-> "end_block", ret |-> "Some"]
                 /\ period_state'[f] # None
          /\ (f \in WriteOnceFields /\ period_state[f] # None) =>
                 period_state'[f] = period_state[f]]_vars
\* DeploySafe entered again after a negative validation and a re-election.
C8_Witness ==
    /\ round_id = "deploy_safe"
    /\ period_state.safe_contract_address # None
    /\ period_state.participant_to_randomness # None
    /\ last = [op |-> "end_block", ret |-> "Some"]

\* The index of the first payload of a dict that carries v.
FirstVote(d, attr, v) ==
    Min({i \in DOMAIN d : d[i][2][attr] = v})
\* The field a plurality round writes its winner to.
MostVotedField(rid) ==
    CASE rid = "randomness" -> "most_voted_randomness"
      [] rid \in {"select_keeper_a", "select_keeper_b"} ->
            "most_voted_keeper_address"
      [] rid = "estimate_consensus" -> "most_voted_estimate"
      [] rid = "tx_hash" -> "most_voted_tx_hash"

KeeperOnlyApply(s, v) == deploy_safe(s, v) \/ finalization(s, v)

\* C10 as stated: in a keeper-only round a payload changes the state only if
\* it comes from the elected keeper, the first payload of the keeper sets the
\* round's value, and no later payload changes anything.
C10_KeeperOnly ==
    [][\A s \in Addresses, v \in Values :
          KeeperOnlyApply(s, v) =>
              /\ s # Get(period_state, "most_voted_keeper_address")
                     => UNCHANGED progvars
              /\ round_value # None => UNCHANGED progvars
              /\ (s = Get(period_state, "most_voted_keeper_address")
                     /\ round_value = None)
                     => round_value' = Some(v)]_vars
\* C10 amended: the first payload of the keeper sets the round's value when
\* the keeper is a participant; a keeper that is not one is dropped as well.
C10_KeeperOnlyParticipant ==
    [][\A s \in Addresses, v \in Values :
          KeeperOnlyApply(s, v) =>
              /\ s # Get(period_state, "most_voted_keeper_address")
                     => UNCHANGED progvars
              /\ s \notin Get(period_state, "participants")
                     => UNCHANGED progvars
              /\ round_value # None => UNCHANGED progvars
              /\ (s = Get(period_state, "most_voted_keeper_address")
                     /\ s \in Get(period_state, "participants")
                     /\ round_value = None)
                     => (round_value' = Some(v)
                         /\ UNCHANGED <<round_id, participants, round_dict, period_state>>)]_vars
\* A second payload of the keeper was dropped by DeploySafe.
C10_Witness ==
    /\ round_id = "deploy_safe"
    /\ round_value # None
    /\ last = [op |-> "deploy_safe", ret |-> "already_set"]

\* The successors of a validate round, as the round graph names them.
PositiveSuccessor(rid) ==
    IF rid = "validate_safe" THEN "collect_observation" ELSE "consensus_reached"
NegativeSuccessor(rid) ==
    IF rid = "validate_safe" THEN "select_keeper_a" ELSE "select_keeper_b"
\* A step of end_block called on a validate round.
ValidateEndBlockStep ==
    round_id \in ValidateRounds /\ last'.op = "end_block"

\* C11: end_block of a validate round goes to the positive successor and
\* writes participant_to_votes when the true votes reach consensus_threshold;
\* otherwise, when the false votes reach it, it goes to the negative successor
\* and leaves participant_to_votes as it was; when neither count reaches the
\* threshold it returns None and the round stays.
C11_ValidateEndBlock ==
    [][ValidateEndBlockStep =>
          LET yes == VotesFor(round_dict, "vote", TRUE)
              no == VotesFor(round_dict, "vote", FALSE)
          IN /\ yes >= consensus_threshold =>
                    /\ round_id' = PositiveSuccessor(round_id)
                    /\ period_state'.participant_to_votes = Some(round_dict)
                    /\ last'.ret = "Some"
             /\ (yes < consensus_threshold /\ no >= consensus_threshold) =>
                    /\ round_id' = NegativeSuccessor(round_id)
                    /\ period_state' = period_state
                    /\ last'.ret = "Some"
             /\ (yes < consensus_threshold /\ no < consensus_threshold) =>
                    /\ UNCHANGED progvars
                    /\ last'.ret = "None"]_vars
\* ValidateSafe has ended on a negative vote: the keeper is elected again
\* and no votes are stored.
C11_Witness ==
    /\ round_id = "select_keeper_a"
    /\ period_state.safe_contract_address # None
    /\ period_state.participant_to_votes = None
    /\ last = [op |-> "end_block", ret |-> "Some"]

\* C12: when both the true votes and the false votes of a validate round
\* have reached consensus_threshold, end_block takes the positive successor
\* and writes participant_to_votes.
C12_PositivePrecedence ==
    [][( /\ ValidateEndBlockStep
         /\ VotesFor(round_dict, "vote", TRUE) >= consensus_threshold
         /\ VotesFor(round_dict, "vote", FALSE) >= consensus_threshold ) =>
          /\ round_id' = PositiveSuccessor(round_id)
          /\ round_id' # NegativeSuccessor(round_id)
          /\ period_state'.participant_to_votes = Some(round_dict)]_vars
\* The transaction was validated by votes of which both the true and the
\* false ones had reached the threshold.
C12_Witness ==
    /\ round_id = "consensus_reached"
    /\ VotesFor(Get(period_state, "participant_to_votes"), "vote", TRUE)
           >= consensus_threshold
    /\ VotesFor(Get(period_state, "participant_to_votes"), "vote", FALSE)
           >= consensus_threshold

\* C13: in ConsensusReached every step leaves the round and the period state
\* as they are: end_block returns None and a payload is dropped.
C13_ConsensusReachedIsTerminal ==
    [][round_id = "consensus_reached" =>
          /\ UNCHANGED progvars
          /\ last'.op = "end_block" => last'.ret = "None"
          /\ last'.op # "end_block" => last' = [op |-> "payload", ret |-> "no_handler"]]_vars
\* end_block was called on ConsensusReached and returned None.
C13_Witness ==
    /\ round_id = "consensus_reached"
    /\ period_state.final_tx_hash # None
    /\ last = [op |-> "end_block", ret |-> "None"]

\* The state of a replica after a call: the round, the period state and what
\* the call returned.
Replica == <<round_id, participants, round_dict, round_value, period_state, last>>

C15_EndBlockIdempotentBeforeThreshold ==
    [][last'.op = "end_block" =>
          /\ ~ThresholdHolds =>
                 /\ UNCHANGED progvars
                 /\ ~ThresholdHolds'
          /\ round_id' # round_id =>
                 /\ <<round_id, round_id'>> \in Edges
                 /\ participants' = {}
                 /\ round_dict' = <<>>
                 /\ round_value' = None
                 /\ ~ThresholdHolds']_vars
\* end_block returned None in CollectSignature, which holds signatures.
C15_Witness ==
    /\ round_id = "collect_signature"
    /\ round_dict # <<>>
    /\ ~ThresholdHolds
    /\ last = [op |-> "end_block", ret |-> "None"]

\* C16: Registration admits the payload of any address, and the payload of an
\* address that is registered changes nothing; the transition of Registration
\* writes the set of the registered addresses, which has max_participants
\* members, to participants; no later step changes participants.
C16_RegistrationAndParticipants ==
    [][/\ \A s \in Addresses :
              registration(s) =>
                  /\ participants' = participants \cup {s}
                  /\ s \in participants => UNCHANGED progvars
       /\ (round_id = "registration" /\ round_id' # round_id) =>
              /\ period_state'.participants = Some(participants)
              /\ Cardinality(participants) = max_participants
       /\ round_id # "registration" =>
              /\ period_state.participants # None
              /\ period_state'.participants = period_state.participants]_vars
\* Registration, open to every address, has made its transition with the
\* largest committee.
C16_Witness ==
    /\ open = "registration"
    /\ round_id = "randomness"
    /\ Cardinality(Get(period_state, "participants")) = max_participants
    /\ max_participants = MaxParticipants
    /\ last = [op |-> "end_block", ret |-> "Some"]

\* The most-voted fields with the map each is computed from and the
\* attribute of the payloads that is counted.
MostVotedFields ==
    { <<"most_voted_randomness", "participant_to_randomness", "randomness">>,
      <<"most_voted_keeper_address", "participant_to_selection", "keeper">>,
      <<"most_voted_estimate", "participant_to_estimate", "estimate">>,
      <<"most_voted_tx_hash", "participant_to_tx_hash", "tx_hash">> }

\* C17: when a most-voted field of the period state is populated, the map it
\* was computed from is populated in the same period state and at least
\* consensus_threshold of its entries carry the value of the field.
C17_MostVotedHasThreshold ==
    \A m \in MostVotedFields :
        period_state[m[1]] # None =>
            /\ period_state[m[2]] # None
            /\ VotesFor(Get(period_state, m[2]), m[3], Get(period_state, m[1]))
                   >= consensus_threshold
\* A keeper is elected by a selection in which another address has a vote.
C17_Witness ==
    /\ round_id = "deploy_safe"
    /\ period_state.most_voted_keeper_address # None
    /\ \E i \in DOMAIN Get(period_state, "participant_to_selection") :
           Get(period_state, "participant_to_selection")[i][2].keeper
               # Get(period_state, "most_voted_keeper_address")

\* The observations of a dict, in the order of their admission.
ObservationsOf(d) == [i \in DOMAIN d |-> d[i][2].observation]
\* A sequence of numbers in nondecreasing order.
SortedSeq(vals) ==
    CHOOSE s \in [DOMAIN vals -> Range(vals)] :
        /\ \A i, j \in DOMAIN s : i <= j => s[i] <= s[j]
        /\ \A x \in Range(vals) :
               Cardinality({i \in DOMAIN s : s[i] = x})
                   = Cardinality({i \in DOMAIN vals : vals[i] = x})
\* The median: the central value of the sorted sequence, the mean of the two
\* central values when their number is even.
Median(vals) ==
    LET s == SortedSeq(vals)
        n == Len(vals)
    IN IF n % 2 = 1 THEN s[(n + 1) \div 2]
       ELSE (s[n \div 2] + s[n \div 2 + 1]) \div 2

\* C18: end_block of CollectObservation makes the transition exactly when at
\* least consensus_threshold participants have an admitted observation, and
\* the estimate it writes is the median of all the observations admitted in
\* the round, which it stores as well.
C18_MedianOfAllObservations ==
    [][(round_id = "collect_observation" /\ last'.op = "end_block") =>
          /\ round_id' # round_id <=>
                 Cardinality(Keys(round_dict) \cap Get(period_state, "participants"))
                     >= consensus_threshold
          /\ round_id' # round_id =>
                 /\ round_id' = "estimate_consensus"
                 /\ period_state'.participant_to_observations = Some(round_dict)
                 /\ period_state'.estimate = Some(Median(ObservationsOf(round_dict)))]_vars
\* CollectObservation has ended with more observations than the threshold
\* asks for, and their median is not the median of the first of them.
C18_Witness ==
    /\ round_id = "estimate_consensus"
    /\ last = [op |-> "end_block", ret |-> "Some"]
    /\ LET obs == ObservationsOf(Get(period_state, "participant_to_observations"))
       IN /\ Len(obs) > consensus_threshold
          /\ Get(period_state, "estimate") = Median(obs)
          /\ Median(obs) # Median(SubSeq(obs, 1, consensus_threshold))

\* The fields listed for a round: those its transition writes.
WrittenIn(rid) == {f \in Fields : rid \in Writers(f)}

\* C19: a transition populates the fields listed for its round, none when a
\* validate round goes to its negative successor, and leaves every other
\* field of the period state with the value it had; a step that is not a
\* transition leaves the whole period state.
C19_TransitionFrame ==
    [][/\ round_id' = round_id => period_state' = period_state
       /\ round_id' # round_id =>
              LET written ==
                      IF /\ round_id \in ValidateRounds
                         /\ round_id' = NegativeSuccessor(round_id)
                      THEN {}
                      ELSE WrittenIn(round_id)
              IN \A f \in Fields :
                     IF f \in written
                     THEN period_state'[f] # None
                     ELSE period_state'[f] = period_state[f]]_vars
\* Finalization has made its transition on a period state of which every
\* field is populated.
C19_Witness ==
    /\ round_id = "validate_transaction"
    /\ last = [op |-> "end_block", ret |-> "Some"]
    /\ \A f \in Fields : period_state[f] # None

\* C20: the period state that an end_block has returned stays as it is until
\* an end_block returns the next one: no other step, a payload applied to the
\* round object that produced it included, changes any of its fields.
C20_ReturnedStateNeverChanges ==
    [][\/ last' = [op |-> "end_block", ret |-> "Some"]
       \/ period_state' = period_state]_vars

\* C21: a request of the plurality winner of a round in which no value has
\* consensus_threshold votes, a round that holds no payload included, ends
\* in a ValueError; a read of a period-state field that is not populated
\* ends in an AEAEnforceError; neither changes the round or the period state.
C21_ErrorsOnEarlyReads ==
    [][/\ last'.op = "most_voted" =>
              /\ UNCHANGED progvars
              /\ ~ThresholdHolds => last'.ret = "ValueError"
              /\ round_dict = <<>> => last'.ret = "ValueError"
       /\ \A f \in Fields :
              ReadField(f) =>
                  /\ UNCHANGED progvars
                  /\ period_state[f] = None => last'.ret = "AEAEnforceError"]_vars
\* The winner was requested of a round that holds votes of which none has
\* reached the threshold.
C21_Witness ==
    /\ round_id = "tx_hash"
    /\ round_dict # <<>>
    /\ ~ThresholdHolds
    /\ last = [op |-> "most_voted", ret |-> "ValueError"]

\* C22: CollectSignature transitions at end_block iff at least
\* consensus_threshold distinct participants have an admitted signature.  A
\* signature payload of a participant without an entry adds the pair of the
\* sender and the signature, any other payload changes nothing, so an entry is
\* the signature of the sender's first admitted payload; the transition writes
\* these entries to participant_to_signature.
C22_SignaturesOfParticipants ==
    [][round_id = "collect_signature" =>
          /\ last'.op = "signature" =>
                 \A s \in Addresses, v \in Values :
                     signature(s, v) =>
                         round_dict' =
                             IF /\ s \in Get(period_state, "participants")
                                /\ s \notin Keys(round_dict)
                             THEN Append(round_dict, <<s, v>>)
                             ELSE round_dict
          /\ last'.op = "end_block" =>
                 /\ round_id' = "finalization" <=>
                        Cardinality(Keys(round_dict)
                                    \cap Get(period_state, "participants"))
                            >= consensus_threshold
                 /\ round_id' # "finalization" => round_id' = round_id
                 /\ round_id' = "finalization" =>
                        /\ period_state'.participant_to_signature
                               = Some(round_dict)
                        /\ Cardinality(Keys(round_dict)) = Len(round_dict)
                        /\ \A i \in DOMAIN round_dict :
                               /\ round_dict[i][1]
                                      \in Get(period_state, "participants")
                               /\ round_dict[i][2] \in Values]_vars
\* Finalization was entered with two different signatures on record.
C22_Witness ==
    /\ round_id = "finalization"
    /\ period_state.participant_to_signature # None
    /\ \E i, j \in DOMAIN Get(period_state, "participant_to_signature") :
           Get(period_state, "participant_to_signature")[i][2]
               # Get(period_state, "participant_to_signature")[j][2]

\* C23: for every string of hexadecimal digits in most_voted_randomness,
\* keeper_randomness is (int(most_voted_randomness, 16) mod 10) / 10, so ten
\* times the value is an integer in 0..9 and the value is in [0, 1).
C23_KeeperRandomnessIsATenth ==
    (last.op = "keeper_randomness" /\ period_state.most_voted_randomness # None)
        => /\ last.ret
                  = <<int(Get(period_state, "most_voted_randomness"), 16) % 10, 10>>
           /\ last.ret[1] \in 0..9
           /\ last.ret[2] = 10
           /\ 0 <= last.ret[1] /\ last.ret[1] < last.ret[2]
\* keeper_randomness of "1f" was read: 0x1f is 31 and the value is one tenth.
C23_Witness ==
    /\ period_state.most_voted_randomness = Some(<<"1", "f">>)
    /\ last = [op |-> "keeper_randomness", ret |-> <<1, 10>>]

\* C24: encoded_most_voted_estimate is the 8-byte little-endian IEEE-754
\* double encoding of most_voted_estimate, and decoding those 8 bytes yields
\* the original value.
C24_LittleEndianEncoding ==
    (last.op = "encoded_most_voted_estimate"
         /\ period_state.most_voted_estimate # None)
        => /\ Len(last.ret) = 8
           /\ last.ret = Reverse(BytesOf(binary64(Get(period_state,
                                                      "most_voted_estimate"))))
           /\ unpack_d("little", last.ret)
                  = Get(period_state, "most_voted_estimate")

\* The rounds of a period without re-election, in their order.
HappyOrder ==
    <<"registration", "randomness", "select_keeper_a", "deploy_safe",
      "validate_safe", "collect_observation", "estimate_consensus", "tx_hash",
      "collect_signature", "finalization", "validate_transaction",
      "consensus_reached">>

SelectionRounds == { "select_keeper_a", "select_keeper_b" }
\* The field a keeper-only round writes.
KeeperField(rid) ==
    IF rid = "deploy_safe" THEN "safe_contract_address" ELSE "final_tx_hash"

ReadsOf(rid) ==
    CASE rid = "registration" -> {}
      [] rid \in KeeperOnlyRounds -> {"participants", "most_voted_keeper_address"}
      [] OTHER -> {"participants"}

\* C27: on every run from Registration, the fields of the period state the
\* current round reads are populated: most_voted_keeper_address in DeploySafe
\* and in Finalization, and participants in every round after Registration.
C27_ReadFieldsArePopulated ==
    /\ \A f \in ReadsOf(round_id) : period_state[f] # None
    /\ round_id \in {"deploy_safe", "finalization"} =>
           period_state.most_voted_keeper_address # None
    /\ round_id # "registration" => period_state.participants # None
\* Finalization compared the sender of a payload with the keeper and took it.
C27_Witness ==
    /\ round_id = "finalization"
    /\ period_state.most_voted_keeper_address # None
    /\ round_value # None
    /\ last = [op |-> "finalization", ret |-> "added"]

\* C28: in ConsensusReached every field of the period state is populated,
\* participant_to_votes holds the votes of the ValidateTransaction round that
\* made the transition, at least consensus_threshold of them True, and
\* final_tx_hash is the value of the payload Finalization took from the keeper
\* that most_voted_keeper_address names: Finalization takes a payload of that
\* keeper only and writes its value, and neither field changes from there to
\* ConsensusReached nor in ConsensusReached.
C28_ConsensusReachedState ==
    [][/\ round_id' = "consensus_reached" =>
              /\ \A f \in Fields : period_state'[f] # None
              /\ VotesFor(Get(period_state', "participant_to_votes"), "vote", TRUE)
                     >= consensus_threshold
       /\ (round_id = "validate_transaction" /\ round_id' = "consensus_reached") =>
              /\ period_state'.participant_to_votes = Some(round_dict)
              /\ \A f \in Fields \ {"participant_to_votes"} :
                     period_state'[f] = period_state[f]
       /\ round_id = "finalization" =>
              /\ \A s \in Addresses, v \in Values :
                     (finalization(s, v) /\ round_value' # round_value) =>
                         /\ s = Get(period_state, "most_voted_keeper_address")
                         /\ round_value' = Some(v)
              /\ round_id' # round_id =>
                     /\ round_id' = "validate_transaction"
                     /\ period_state'.final_tx_hash = round_value
                     /\ period_state'.most_voted_keeper_address
                            = period_state.most_voted_keeper_address
       /\ (round_id = "validate_transaction" /\ round_id' = round_id) =>
              period_state' = period_state
       /\ round_id = "consensus_reached" =>
              /\ period_state' = period_state
              /\ round_id' = round_id]_vars
\* ConsensusReached with a vote against the transaction on record.
C28_Witness ==
    /\ round_id = "consensus_reached"
    /\ VotesFor(Get(period_state, "participant_to_votes"), "vote", FALSE) > 0
    /\ VotesFor(Get(period_state, "participant_to_votes"), "vote", TRUE)
           >= consensus_threshold

\* C29: a keeper-only round admits a payload only if its sender is a
\* participant and is the address most_voted_keeper_address names; a selection
\* round stores the vote of a participant whatever address it names; so when
\* the elected keeper is not a participant, DeploySafe (or Finalization) holds
\* no value, no step changes it, and it never advances.
C29_KeeperOutsideTheCommittee ==
    [][/\ \A s \in Addresses, v \in Values :
              (KeeperOnlyApply(s, v) /\ round_value' # round_value) =>
                  /\ s \in Get(period_state, "participants")
                  /\ s = Get(period_state, "most_voted_keeper_address")
       /\ \A s, k \in Addresses :
              ((select_keeper_a(s, k) \/ select_keeper_b(s, k))
                   /\ s \in Get(period_state, "participants")
                   /\ s \notin Keys(round_dict)) =>
                  round_dict' = Append(round_dict, <<s, SelectKeeperPayload(s, k)>>)
       /\ (/\ round_id \in KeeperOnlyRounds
           /\ Get(period_state, "most_voted_keeper_address")
                  \notin Get(period_state, "participants")) =>
              /\ round_value = None
              /\ UNCHANGED progvars
              /\ last'.op = "end_block" => last'.ret = "None"]_vars
\* Finalization, with a keeper that is not a participant, returned None at
\* end_block.
C29_Witness ==
    /\ round_id = "finalization"
    /\ Get(period_state, "most_voted_keeper_address")
           \notin Get(period_state, "participants")
    /\ last = [op |-> "end_block", ret |-> "None"]

\* C30: an end_block of Registration makes the transition iff the number of
\* registered addresses is max_participants at that moment; a payload only
\* adds to the registered set; so once more than max_participants addresses
\* are registered, Registration never advances.
C30_RegistrationNeedsTheExactCount ==
    [][round_id = "registration" =>
          /\ last'.op = "end_block" =>
                 /\ round_id' \in {"registration", "randomness"}
                 /\ round_id' = "randomness" <=>
                        Cardinality(participants) = max_participants
                 /\ round_id' = "registration" => participants' = participants
          /\ last'.op # "end_block" =>
                 /\ round_id' = "registration"
                 /\ participants \subseteq participants'
                 /\ \A s \in Addresses :
                        registration(s) => participants' = participants \cup {s}
          /\ Cardinality(participants) > max_participants =>
                 /\ round_id' = "registration"
                 /\ Cardinality(participants') > max_participants]_vars
\* Registration with more than max_participants addresses returned None at
\* end_block.
C30_Witness ==
    /\ round_id = "registration"
    /\ Cardinality(participants) > max_participants
    /\ last = [op |-> "end_block", ret |-> "None"]

\* C31: in a plurality round or a validate round in which every participant
\* has an admitted payload and no value (neither vote) has consensus_threshold
\* votes, no payload changes the round or the period state and end_block
\* returns None, so that the machine stays in that round forever.
C31_SplitVoteIsFinal ==
    [][(/\ round_id \in PluralityRounds \cup ValidateRounds
        /\ Keys(round_dict) = Get(period_state, "participants")
        /\ ~ThresholdHolds) =>
           /\ UNCHANGED progvars
           /\ last'.op = "end_block" => last'.ret = "None"
           /\ last'.op # "end_block" =>
                  last'.ret \in {"not_participant", "duplicate"}]_vars
\* ValidateSafe returned None at end_block after both participants voted, one
\* for and one against, with a threshold of two.
C31_Witness ==
    /\ round_id = "validate_safe"
    /\ consensus_threshold = 2
    /\ Keys(round_dict) = Get(period_state, "participants")
    /\ VotesFor(round_dict, "vote", TRUE) = 1
    /\ VotesFor(round_dict, "vote", FALSE) = 1
    /\ last = [op |-> "end_block", ret |-> "None"]

\* The values of the current plurality round with consensus_threshold votes.
ThresholdValues ==
    { v \in VotedValues(round_dict, VotedAttr(round_id)) :
          VotesFor(round_dict, VotedAttr(round_id), v) >= consensus_threshold }

C33_CheckAgreesWithApply ==
    [][/\ \A s \in Addresses :
              (ApplyFrom(s) /\ round_id \notin {"registration", "consensus_reached"}) =>
                  /\ check(s) <=> <<round_dict', round_value'>> # <<round_dict, round_value>>
                  /\ check(s) <=> last'.ret = "added"
                  /\ ~check(s) => UNCHANGED progvars
                  /\ UNCHANGED <<round_id, participants, period_state>>
       /\ \A s \in Addresses :
              (ApplyFrom(s) /\ round_id = "registration") =>
                  /\ check(s)
                  /\ s \in participants => UNCHANGED progvars
       /\ last'.op = "check" =>
              /\ UNCHANGED progvars
              /\ \E s \in Addresses :
                     last'.ret = IF check(s) THEN "True" ELSE "False"]_vars
\* DeploySafe: the check returned False, for a payload sent after the keeper
\* set the address of the contract.
C33_Witness ==
    /\ round_id = "deploy_safe"
    /\ round_value # None
    /\ last = [op |-> "check", ret |-> "False"]

====
